---- MODULE Spec2Model ----
(***************************************************************************)
(* Model of static/app.js: the measurement loader (fetchMeasurements), the *)
(* point builder (parseDate, buildPoints), the two DOMContentLoaded        *)
(* handlers that build a chart on the evolutionChart canvas, the toggle    *)
(* listeners and the selector background probe (setBackground).            *)
(*                                                                         *)
(* app.js is a classic script that declares fetchMeasurements twice (lines *)
(* 1-5 and 71-85).  Function declarations are hoisted and the later one    *)
(* replaces the earlier one, so every call in the file, the one made by    *)
(* the first handler included, runs the declaration of lines 71-85.        *)
(***************************************************************************)
EXTENDS Integers, Sequences, FiniteSets, TLC

(***************************************************************************)
(* Bounds of the model.                                                    *)
(***************************************************************************)
\* longest JSON array a response body carries in SpecData
MaxLen == 3

(***************************************************************************)
(* JavaScript values.  Every value is a record with the same three fields  *)
(* so that any two of them can be compared.  A string is a sequence of     *)
(* tokens: one-character tokens (" ", digits, letters) and the multi-      *)
(* character tokens "Infinity", "T12:00:00" and the ISO days of IsoDays.   *)
(***************************************************************************)
Null == [t |-> "null", s |-> <<>>, n |-> 0]
Str(s) == [t |-> "str", s |-> s, n |-> 0]
Num(n) == [t |-> "num", s |-> <<>>, n |-> n]
Infinity == [t |-> "inf", s |-> <<>>, n |-> 0]
NaN == [t |-> "nan", s |-> <<>>, n |-> 0]
\* a Date object; n is its getTime(), in hours since the day before IsoDay 1
DateObj(ms) == [t |-> "date", s |-> <<>>, n |-> ms]
InvalidDate == [t |-> "invalid_date", s |-> <<>>, n |-> 0]

\* ToBoolean
Truthy(v) ==
  CASE v.t = "null" -> FALSE
    [] v.t = "str" -> v.s # <<>>
    [] v.t = "num" -> v.n # 0
    [] v.t = "nan" -> FALSE
    [] OTHER -> TRUE

\* the global isNaN, on numbers
IsNaN(v) == v.t = "nan"

Digits == <<"0", "1", "2", "3", "4", "5", "6", "7", "8", "9">>

IsDigit(c) == \E i \in 1..10 : Digits[i] = c

DigitValue(c) == (CHOOSE i \in 1..10 : Digits[i] = c) - 1

RECURSIVE DigitsOf(_)
DigitsOf(n) == IF n < 10 THEN <<Digits[n + 1]>>
               ELSE DigitsOf(n \div 10) \o <<Digits[(n % 10) + 1]>>

\* ToString(v), for the values the model passes to parseFloat and parseDate
JsToString(v) ==
  CASE v.t = "str" -> v.s
    [] v.t = "num" -> DigitsOf(v.n)
    [] v.t = "null" -> <<"n", "u", "l", "l">>
    [] v.t = "inf" -> <<"Infinity">>
    [] OTHER -> <<"N", "a", "N">>

RECURSIVE TrimStart(_)
TrimStart(s) == IF s # <<>> /\ Head(s) = " " THEN TrimStart(Tail(s)) ELSE s

RECURSIVE TrimEnd(_)
TrimEnd(s) == IF s # <<>> /\ s[Len(s)] = " " THEN TrimEnd(SubSeq(s, 1, Len(s) - 1)) ELSE s

\* String.prototype.trim
Trim(s) == TrimEnd(TrimStart(s))

\* value of the longest prefix of digits of s, acc being the value read so far
RECURSIVE DigitPrefix(_, _)
DigitPrefix(s, acc) ==
  IF s # <<>> /\ IsDigit(Head(s)) THEN DigitPrefix(Tail(s), acc * 10 + DigitValue(Head(s)))
  ELSE acc

\* the global parseFloat: leading white space is skipped, then the longest
\* prefix that is a decimal literal is read ("Infinity" is one); NaN if none
parseFloat(v) ==
  LET s == TrimStart(JsToString(v)) IN
  IF s = <<>> THEN NaN
  ELSE IF Head(s) = "Infinity" THEN Infinity
  ELSE IF IsDigit(Head(s)) THEN Num(DigitPrefix(s, 0))
  ELSE NaN

IsoDays == <<"2024-01-01", "2024-01-02", "2024-01-03">>

IsIsoDay(c) == \E i \in 1..Len(IsoDays) : IsoDays[i] = c

DayNumber(c) == CHOOSE i \in 1..Len(IsoDays) : IsoDays[i] = c

\* new Date(string): a local date-time "<ISO day>T12:00:00" is noon of that
\* day, any other string of the model is an Invalid Date
NewDate(s) ==
  IF Len(s) = 2 /\ IsIsoDay(s[1]) /\ s[2] = "T12:00:00"
  THEN DateObj(DayNumber(s[1]) * 24 + 12)
  ELSE InvalidDate

\* Date.prototype.getTime
getTime(d) == IF d.t = "date" THEN Num(d.n) ELSE NaN

parseDate(dateStr) ==
  IF ~Truthy(dateStr) THEN Null
  ELSE NewDate(Trim(JsToString(dateStr)) \o <<"T12:00:00">>)

(***************************************************************************)
(* Measurement records and chart points.                                   *)
(***************************************************************************)
METRIC_KEYS == <<"nitrate", "phosphate", "kh", "magnesium", "calcium">>

Rec(d, no3, po4) ==
  [date |-> d, nitrate |-> no3, phosphate |-> po4,
   kh |-> Null, magnesium |-> Null, calcium |-> Null]

Point(px, py) == [x |-> px, y |-> py]

\* the place of point p among the points already sorted: after every point
\* whose date is not later (Array.prototype.sort is stable)
RECURSIVE Insert(_, _)
Insert(sorted, p) ==
  IF sorted = <<>> THEN <<p>>
  ELSE IF p.x.n - sorted[Len(sorted)].x.n >= 0 THEN Append(sorted, p)
  ELSE Append(Insert(SubSeq(sorted, 1, Len(sorted) - 1), p), sorted[Len(sorted)])

\* buildPoints without its sort: the points stay in input order
SortByX_unsorted(points) == points

\* points.sort((a, b) => a.x - b.x)
RECURSIVE SortByX(_)
SortByX(points) ==
  IF points = <<>> THEN <<>>
  ELSE Insert(SortByX(SubSeq(points, 1, Len(points) - 1)), points[Len(points)])

BuildFilter(d, key) ==
  /\ d # Null
  /\ Truthy(d.date)
  /\ d[key] # Null
  /\ d[key] # Str(<<>>)

\* BuildMap without the isNaN(value) test
BuildMap_keepsNaN(d, key) ==
  LET date == parseDate(d.date)
      value == parseFloat(d[key])
  IN IF ~Truthy(date) \/ IsNaN(getTime(date)) THEN Null
     ELSE Point(date, value)

BuildMap(d, key) ==
  LET date == parseDate(d.date)
      value == parseFloat(d[key])
  IN IF ~Truthy(date) \/ IsNaN(getTime(date)) \/ IsNaN(value) THEN Null
     ELSE Point(date, value)

buildPoints(data, key) ==
  LET filtered == SelectSeq(data, LAMBDA d : BuildFilter(d, key))
      mapped == [i \in 1..Len(filtered) |-> BuildMap(filtered[i], key)]
      kept == SelectSeq(mapped, LAMBDA p : p # Null)
  IN SortByX(kept)

(***************************************************************************)
(* The measurement loader.                                                 *)
(***************************************************************************)
\* a parsed JSON body: an array of items, or a value that is not an array
\* (isArray FALSE; items then are the values the object holds)
JsonArray(items) == [isArray |-> TRUE, items |-> items]
JsonObject(items) == [isArray |-> FALSE, items |-> items]

\* a settled promise
Fulfilled(v) == [state |-> "fulfilled", value |-> v]
Rejected == [state |-> "rejected", value |-> JsonObject(<<>>)]

\* what the network does with one request: net is "error" when fetch()
\* rejects; otherwise ok is res.ok, json is "invalid" when res.json()
\* rejects and body is what it resolves to
NetError == [net |-> "error", ok |-> FALSE, json |-> "invalid", body |-> JsonObject(<<>>)]
Response(ok, body) == [net |-> "response", ok |-> ok, json |-> "value", body |-> body]
Malformed(ok) == [net |-> "response", ok |-> ok, json |-> "invalid", body |-> JsonObject(<<>>)]

\* the options of the fetch call
fetchOptions == [cache |-> "no-store"]

\* the declaration of lines 1-5, which the later declaration replaces: no
\* try/catch, no status check, no array check
fetchMeasurements_first(id, outcome) ==
  IF ~Truthy(id) THEN Fulfilled(JsonArray(<<>>))
  ELSE IF outcome.net = "error" THEN Rejected
  ELSE IF outcome.json = "invalid" THEN Rejected
  ELSE Fulfilled(outcome.body)

fetchMeasurements(id, outcome) ==
  IF ~Truthy(id) THEN Fulfilled(JsonArray(<<>>))
  ELSE IF outcome.net = "error" THEN Fulfilled(JsonArray(<<>>))
  ELSE IF ~outcome.ok THEN Fulfilled(JsonArray(<<>>))
  ELSE IF outcome.json = "invalid" THEN Fulfilled(JsonArray(<<>>))
  ELSE IF outcome.body.isArray THEN Fulfilled(outcome.body)
  ELSE Fulfilled(JsonArray(<<>>))

(***************************************************************************)
(* Inputs of SpecData: the values of window.__SELECTED_AQUARIUM__, the     *)
(* date and value fields a record may carry, the response bodies.          *)
(***************************************************************************)
AqIds == {Null, Num(1)}

D1 == Str(<<"2024-01-01">>)
D2 == Str(<<"2024-01-02">>)
D3 == Str(<<"2024-01-03">>)

\* the records of SpecData carry their value in the nitrate field: valid
\* ones (two of them on the same day, one with a padded date, one with a
\* JSON number), and one for each way a record can be invalid
DataRecords ==
  {Rec(D1, Str(<<"5">>), Null),
   Rec(D1, Str(<<"7">>), Null),
   Rec(D2, Str(<<"7">>), Null),
   Rec(D2, Num(0), Null),
   Rec(Str(<<" ", "2024-01-03", " ">>), Str(<<"1", "2", "b">>), Null),
   Rec(D3, Str(<<"b", "a", "d">>), Null),
   Rec(D2, Str(<<>>), Null),
   Rec(D2, Null, Null),
   Rec(D1, Str(<<"Infinity">>), Null),
   Rec(Null, Str(<<"5">>), Null),
   Rec(Str(<<>>), Str(<<"5">>), Null),
   Rec(Str(<<"b", "a", "d">>), Str(<<"7">>), Null)}

\* the items of a JSON array: records, or null
DataItems == DataRecords \cup {Null}

RECURSIVE SeqsUpTo(_, _)
SeqsUpTo(S, n) ==
  IF n = 0 THEN {<<>>}
  ELSE LET shorter == SeqsUpTo(S, n - 1)
       IN shorter \cup {Append(q, e) : q \in {r \in shorter : Len(r) = n - 1}, e \in S}

DataOutcomes ==
  {NetError, Malformed(TRUE), Malformed(FALSE),
   Response(FALSE, JsonArray(<<Rec(D1, Str(<<"5">>), Null)>>)),
   Response(TRUE, JsonObject(<<Rec(D1, Str(<<"5">>), Null)>>))}
  \cup {Response(TRUE, JsonArray(items)) : items \in SeqsUpTo(DataItems, MaxLen)}

(***************************************************************************)
(* The chart controller's helpers.                                         *)
(***************************************************************************)
\* the metrics table of the first handler
metrics1 ==
  <<[key |-> "nitrate", label |-> "NO3"],
    [key |-> "phosphate", label |-> "PO4"],
    [key |-> "kh", label |-> "KH"],
    [key |-> "magnesium", label |-> "Mg"],
    [key |-> "calcium", label |-> "Ca"]>>

\* the metrics table of the second handler
metrics2 ==
  <<[key |-> "nitrate", label |-> "NO3 (mg/L)"],
    [key |-> "phosphate", label |-> "PO4 (mg/L)"],
    [key |-> "kh", label |-> "KH (dKH)"],
    [key |-> "magnesium", label |-> "Mg (ppm)"],
    [key |-> "calcium", label |-> "Ca (ppm)"]>>

COLORS ==
  [nitrate |-> "#ff6b6b", phosphate |-> "#4ecdc4", kh |-> "#45b7d1",
   magnesium |-> "#f7b731", calcium |-> "#a55eea"]

\* metrics.find(m => m.key === key): whether it finds one, and the one found
HasMetric(metrics, key) == \E i \in 1..Len(metrics) : metrics[i].key = key

FindMetric(metrics, key) ==
  metrics[CHOOSE i \in 1..Len(metrics) :
            /\ metrics[i].key = key
            /\ \A j \in 1..(i - 1) : metrics[j].key # key]

\* the .metric-toggle checkboxes of the page, in document order: one per
\* metric, for the first NumToggles metrics
NumToggles == 2

ToggleValues == SubSeq(METRIC_KEYS, 1, NumToggles)

\* toggles.filter(t => t.checked).map(t => t.value)
RECURSIVE CheckedFrom(_, _)
CheckedFrom(chk, i) ==
  IF i > Len(ToggleValues) THEN <<>>
  ELSE (IF chk[i] THEN <<ToggleValues[i]>> ELSE <<>>) \o CheckedFrom(chk, i + 1)

\* visibleKeys of the first handler
visibleKeys(chk) == CheckedFrom(chk, 1)

\* getVisibleMetrics of the second handler
getVisibleMetrics(chk) ==
  LET checkedValues == CheckedFrom(chk, 1)
  IN IF Len(checkedValues) # 0 THEN checkedValues ELSE <<"nitrate">>

\* a dataset: the properties the two builders set that the chart's content
\* depends on ("unset" for a property the builder leaves out)
lineDataset(label, key, data) ==
  [label |-> label,
   data |-> [i \in 1..Len(data) |-> Point(data[i].date, data[i][key])],
   borderColor |-> "unset",
   fill |-> "unset",
   spanGaps |-> TRUE]

createDataset(label, points, key) ==
  [label |-> label,
   data |-> points,
   borderColor |-> IF key \in DOMAIN COLORS THEN COLORS[key] ELSE "#ffffff",
   fill |-> "false",
   spanGaps |-> FALSE]

\* the datasets expression of the first handler (construction and listener)
lineDatasets(chk, raw) ==
  LET keys == visibleKeys(chk)
  IN [i \in 1..Len(keys) |-> lineDataset(FindMetric(metrics1, keys[i]).label, keys[i], raw)]

\* the forEach of createDatasets, over the keys that remain
RECURSIVE DatasetsOf(_, _)
DatasetsOf(keys, rawData) ==
  IF keys = <<>> THEN <<>>
  ELSE LET key == Head(keys)
           points == buildPoints(rawData, key)
           pushed == IF HasMetric(metrics2, key) /\ Len(points) > 0
                     THEN <<createDataset(FindMetric(metrics2, key).label, points, key)>>
                     ELSE <<>>
       IN pushed \o DatasetsOf(Tail(keys), rawData)

\* createDatasets of the second handler
createDatasets(chk, rawData) == DatasetsOf(getVisibleMetrics(chk), rawData)

\* the fallback datasets: every point's x becomes its index in the dataset
fallbackDatasets(datasets) ==
  [i \in 1..Len(datasets) |->
     [datasets[i] EXCEPT !.data = [j \in 1..Len(@) |-> Point(Num(j - 1), @[j].y)]]]

\* a chart object: the attempt that constructed it (id), the type of its x
\* scale, its datasets and the mode of the last update() ("none" before any)
ChartObj(id, axis, datasets) ==
  [id |-> id, axis |-> axis, datasets |-> datasets, updated |-> "none"]

\* the chart variable while it is undefined
NoChart == [id |-> 0, axis |-> "none", datasets |-> <<>>, updated |-> "none"]

\* one call of new Chart(ctx, config): who made it, in which try block,
\* whether the constructor returned, and the config it was given
Attempt(by, kind, ok, axis, datasets) ==
  [by |-> by, kind |-> kind, ok |-> ok, axis |-> axis, datasets |-> datasets]

(***************************************************************************)
(* Inputs of Spec: the records and the outcomes of the two requests of a   *)
(* page load.                                                              *)
(***************************************************************************)
\* longest JSON array a response body carries in Spec
MaxBody == 2

\* the records the server holds, in the order it returns them: the later
\* day first, a phosphate value that is not a number, an empty nitrate value
PageStream ==
  <<Rec(D2, Str(<<"5">>), Str(<<"b", "a", "d">>)),
    Rec(D1, Str(<<"7">>), Str(<<"5">>)),
    Rec(D3, Str(<<>>), Str(<<"7">>))>>

\* the arrays a response body carries in Spec: the first records of the
\* stream, up to MaxBody of them
PageBodies == {SubSeq(PageStream, 1, n) : n \in 0..MaxBody}

\* a network error, an HTTP 500, and the arrays of records (SpecData goes
\* through the other outcomes of a request)
PageOutcomes ==
  {NetError, Response(FALSE, JsonObject(<<>>))}
  \cup {Response(TRUE, JsonArray(items)) : items \in PageBodies}

\* the outcomes of the requests in SpecSel, where the chart is not looked at
SelOutcomes == {NetError, Response(TRUE, JsonArray(<<Rec(D1, Str(<<"5">>), Null)>>))}

(***************************************************************************)
(* The aquarium selector.                                                  *)
(***************************************************************************)
\* the data-image attribute of the options of #aquariumSelector
Options == <<Null, Str(<<"a.png">>), Str(<<"b.png">>)>>

\* most image probes one page creates in the model
MaxProbes == 2

\* a style.backgroundImage value: '' or url('...')
NoImage == <<>>
CssUrl(imageUrl) == <<"url('">> \o imageUrl.s \o <<"')">>

\* the background styling of the selector and of the preview
Styling(sel) == [selBg |-> sel.selBg, hasBg |-> sel.hasBg, prevBg |-> sel.prevBg]

\* an Image created by setBackground: its src, whether it is still loading,
\* and the styling as it was when that setBackground was entered
Probe(imageUrl, before) == [url |-> imageUrl, status |-> "pending", before |-> before]

\* selector.options[selector.selectedIndex].getAttribute('data-image'), null
\* when nothing is selected (selectedIndex -1, here 0)
ImageUrlOf(index) == IF index \in 1..Len(Options) THEN Options[index] ELSE Null

\* setBackground: the DOM state it leaves, sel being the state it finds
setBackground(sel) ==
  LET imageUrl == ImageUrlOf(sel.selectedIndex)
      cleared == [sel EXCEPT !.selBg = NoImage, !.hasBg = FALSE,
                             !.prevBg = IF sel.preview THEN NoImage ELSE @]
  IN IF Truthy(imageUrl)
     THEN [cleared EXCEPT !.probes = Append(@, Probe(imageUrl, Styling(sel)))]
     ELSE cleared

\* img.onload of probe p
onload(sel, p) ==
  [sel EXCEPT !.selBg = CssUrl(sel.probes[p].url),
              !.hasBg = TRUE,
              !.prevBg = IF sel.preview THEN CssUrl(sel.probes[p].url) ELSE @,
              !.probes[p].status = "loaded"]

\* an onerror that removes the background
onerror_clears(sel, p) ==
  [sel EXCEPT !.selBg = NoImage, !.hasBg = FALSE,
              !.prevBg = IF sel.preview THEN NoImage ELSE @,
              !.probes[p].status = "failed"]

\* img.onerror of probe p: a warning is logged
onerror(sel, p) == [sel EXCEPT !.probes[p].status = "failed"]

\* updateAquariumSelectorBackground
updateAquariumSelectorBackground(sel) ==
  IF ~sel.present THEN sel
  ELSE [setBackground(sel) EXCEPT !.listening = TRUE]


(***************************************************************************)
(* The inputs of type number.                                              *)
(***************************************************************************)
\* an input of type number as the server renders it: its value, its min
\* and max attributes ('' when absent), its classes and its title
NumberInput(value, min, max, classes) ==
  [value |-> value, min |-> min, max |-> max, classes |-> classes, title |-> <<>>]

\* the classes the input listener removes
BorderClasses == {"border-success", "border-warning", "border-danger"}

\* a < b on numbers: false when either is NaN
Less(a, b) ==
  CASE a.t = "nan" \/ b.t = "nan" -> FALSE
    [] a.t = "inf" -> FALSE
    [] b.t = "inf" -> TRUE
    [] OTHER -> a.n < b.n

\* `Valor fuera del rango recomendado (${min}-${max})`
OutOfRangeTitle(min, max) ==
  <<"Valor fuera del rango recomendado (">> \o JsToString(min) \o <<"-">>
    \o JsToString(max) \o <<")">>

InRangeTitle == <<"Valor dentro del rango optimo">>

\* an input listener that returns at once on a value that is not a number
inputListener_returnsFirst(input) ==
  LET value == parseFloat(Str(input.value))
      min == parseFloat(Str(input.min))
      max == parseFloat(Str(input.max))
  IN IF IsNaN(value) THEN input
     ELSE IF Less(value, min) \/ Less(max, value)
     THEN [input EXCEPT !.classes = (@ \ BorderClasses) \cup {"border-danger"},
                        !.title = OutOfRangeTitle(min, max)]
     ELSE [input EXCEPT !.classes = (@ \ BorderClasses) \cup {"border-success"},
                        !.title = InRangeTitle]

\* the input listener of a number input: the element after it has run
inputListener(input) ==
  LET value == parseFloat(Str(input.value))
      min == parseFloat(Str(input.min))
      max == parseFloat(Str(input.max))
      removed == [input EXCEPT !.classes = @ \ BorderClasses]
  IN IF IsNaN(value) THEN removed
     ELSE IF Less(value, min) \/ Less(max, value)
     THEN [removed EXCEPT !.classes = @ \cup {"border-danger"},
                          !.title = OutOfRangeTitle(min, max)]
     ELSE [removed EXCEPT !.classes = @ \cup {"border-success"},
                          !.title = InRangeTitle]

\* the number input of the pages of Spec, SpecSel and SpecData
PlainInput == NumberInput(<<>>, <<"2">>, <<"8">>, {"form-control"})

\* what the user can leave in a number input: '' or a decimal literal
InputValues == {<<>>, <<"0">>, <<"2">>, <<"5">>, <<"8">>, <<"1", "2">>}

\* the min and max attributes of the number inputs of SpecInput
RangeAttrs ==
  {<<<<>>, <<>>>>, <<<<"2">>, <<"8">>>>, <<<<"5">>, <<"5">>>>, <<<<>>, <<"8">>>>,
   <<<<"2">>, <<>>>>}

\* the number inputs a page of SpecInput can hold
NumberInputs ==
  {NumberInput(<<>>, attrs[1], attrs[2], classes) :
     attrs \in RangeAttrs,
     classes \in {{"form-control"}, {"form-control", "border-warning"}}}
(***************************************************************************)
(* State.                                                                  *)
(***************************************************************************)
VARIABLES
  dpc,        \* SpecData: "start", "fetched" or "built"
  fmAqId,     \* SpecData: the argument of fetchMeasurements
  fmOutcome,  \* SpecData: what the network did with the request
  fmResult,   \* SpecData: the promise fetchMeasurements returned, settled
  bpKey,      \* SpecData: the key given to buildPoints
  bpPoints,   \* SpecData: what buildPoints returned
  aqId,       \* window.__SELECTED_AQUARIUM__
  canvas,     \* whether the page has the evolutionChart canvas
  checked,    \* checked[i]: whether toggle i is checked
  pc,         \* pc[h]: where DOMContentLoaded handler h (1 or 2) is
  requests,   \* the network requests issued so far
  netOutcome, \* netOutcome[h]: what the network did with handler h's request
  raw,        \* raw[h]: raw of handler 1, rawData of handler 2
  chart,      \* chart[h]: the chart variable of handler h
  attempts,   \* the calls of new Chart on the canvas so far
  listening,  \* listening[h]: handler h's toggle listeners are registered
  notices,    \* the "no data" notices appended to the canvas's parent
  ancillary,  \* the modal, range and keydown listeners are registered
  selector,   \* #aquariumSelector, #aquariumPreview and the image probes
  rangeInput  \* an input of type number: value, min, max, classes, title

dataVars == <<dpc, fmAqId, fmOutcome, fmResult, bpKey, bpPoints>>

pageVars == <<aqId, canvas, checked, pc, requests, netOutcome, raw, chart,
              attempts, listening, notices, ancillary>>

vars == <<dataVars, pageVars, selector, rangeInput>>

Handlers == {1, 2}

\* the selector of a page: whether the select and the preview exist, and
\* the option the server rendered as selected (0: none)
SelectorDom(present, preview, index) ==
  [present |-> present, preview |-> preview, selectedIndex |-> index,
   selBg |-> NoImage, hasBg |-> FALSE, prevBg |-> NoImage,
   probes |-> <<>>, listening |-> FALSE]

\* the page before DOMContentLoaded
PageIdle ==
  /\ pc = [h \in Handlers |-> "idle"]
  /\ requests = <<>>
  /\ netOutcome = [h \in Handlers |-> NetError]
  /\ raw = [h \in Handlers |-> <<>>]
  /\ chart = [h \in Handlers |-> NoChart]
  /\ attempts = <<>>
  /\ listening = [h \in Handlers |-> FALSE]
  /\ notices = 0
  /\ ancillary = FALSE

\* SpecData before the call
DataIdle ==
  /\ dpc = "start"
  /\ fmOutcome = NetError
  /\ fmResult = Rejected
  /\ bpKey = "nitrate"
  /\ bpPoints = <<>>

(***************************************************************************)
(* SpecData: fetchMeasurements is called with any identifier and settles   *)
(* under any outcome of the network; buildPoints is then applied to the    *)
(* list it resolved to, with any metric key.                               *)
(***************************************************************************)
InitData ==
  /\ fmAqId \in AqIds
  /\ DataIdle
  /\ aqId = Null
  /\ canvas = FALSE
  /\ checked = [i \in 1..NumToggles |-> FALSE]
  /\ PageIdle
  /\ selector = SelectorDom(FALSE, FALSE, 0)
  /\ rangeInput = PlainInput

CallFetchMeasurements ==
  /\ dpc = "start"
  /\ \E outcome \in DataOutcomes :
       /\ Truthy(fmAqId) \/ outcome = NetError
       /\ fmOutcome' = outcome
       /\ fmResult' = fetchMeasurements(fmAqId, outcome)
  /\ dpc' = "fetched"
  /\ UNCHANGED <<fmAqId, bpKey, bpPoints, pageVars, selector, rangeInput>>

CallBuildPoints ==
  /\ dpc = "fetched"
  /\ fmResult.state = "fulfilled"
  /\ fmResult.value.isArray
  /\ \E i \in 1..Len(METRIC_KEYS) :
       /\ bpKey' = METRIC_KEYS[i]
       /\ bpPoints' = buildPoints(fmResult.value.items, METRIC_KEYS[i])
  /\ dpc' = "built"
  /\ UNCHANGED <<fmAqId, fmOutcome, fmResult, pageVars, selector, rangeInput>>

NextData == CallFetchMeasurements \/ CallBuildPoints

SpecData == InitData /\ [][NextData]_vars

(***************************************************************************)
(* The page load.  DOMContentLoaded runs the two handlers in the order of  *)
(* their registration, each up to its await; each resumes when its own     *)
(* request has settled, and then runs to its end without interruption.     *)
(***************************************************************************)
\* the fetch call fetchMeasurements makes for handler h, if it makes one
FetchCalls(h) ==
  IF Truthy(aqId) THEN <<[by |-> h, cache |-> fetchOptions.cache]>> ELSE <<>>

\* a buildPoints that sorts the array it was given, by date
dataAfterBuildPoints_sortsInPlace(data, key) ==
  IF Len(data) >= 2 /\ parseDate(data[1].date).n > parseDate(data[2].date).n
  THEN <<data[2], data[1]>> \o SubSeq(data, 3, Len(data))
  ELSE data

\* the array given to buildPoints, after the call: filter and map return
\* new arrays and sort works on the last of them, the argument is only read
dataAfterBuildPoints(data, key) == data

\* rawData after createDatasets has called buildPoints for each of keys
RECURSIVE dataAfterCreateDatasets(_, _)
dataAfterCreateDatasets(keys, data) ==
  IF keys = <<>> THEN data
  ELSE dataAfterCreateDatasets(Tail(keys), dataAfterBuildPoints(data, Head(keys)))

\* the first handler, up to its await
Handler1Start ==
  /\ pc[1] = "idle"
  /\ IF ~canvas \/ ~Truthy(aqId)
     THEN /\ pc' = [pc EXCEPT ![1] = "returned"]
          /\ UNCHANGED requests
     ELSE /\ pc' = [pc EXCEPT ![1] = "fetching"]
          /\ requests' = requests \o FetchCalls(1)
  /\ UNCHANGED <<dataVars, rangeInput, aqId, canvas, checked, netOutcome, raw, chart,
                 attempts, listening, notices, ancillary, selector>>

\* the second handler, up to its await
Handler2Start ==
  /\ pc[1] # "idle"
  /\ pc[2] = "idle"
  /\ IF ~canvas \/ ~Truthy(aqId)
     THEN /\ pc' = [pc EXCEPT ![2] = "returned"]
          /\ UNCHANGED requests
     ELSE /\ pc' = [pc EXCEPT ![2] = "fetching"]
          /\ requests' = requests \o FetchCalls(2)
  /\ UNCHANGED <<dataVars, rangeInput, aqId, canvas, checked, netOutcome, raw, chart,
                 attempts, listening, notices, ancillary, selector>>

\* a value fetchMeasurements resolved to that the handlers can map and
\* filter; with any other settlement the handler's promise rejects (a case
\* the fetchMeasurements of lines 71-85 never produces)
Usable(result) == result.state = "fulfilled" /\ result.value.isArray

\* the first handler from its await on: the request settles with one of
\* outcomes, new Chart returns (ok) or throws
Handler1Resume(outcomes) ==
  /\ pc[1] = "fetching"
  /\ \E outcome \in outcomes, ok \in BOOLEAN :
       LET result == fetchMeasurements(aqId, outcome)
           newRaw == result.value.items
           datasets == lineDatasets(checked, newRaw)
           id == Len(attempts) + 1
       IN /\ netOutcome' = [netOutcome EXCEPT ![1] = outcome]
          /\ IF ~Usable(result)
             THEN /\ pc' = [pc EXCEPT ![1] = "rejected"]
                  /\ UNCHANGED <<raw, chart, attempts, listening>>
             ELSE /\ raw' = [raw EXCEPT ![1] = newRaw]
                  /\ attempts' = Append(attempts, Attempt(1, "primary", ok, "time", datasets))
                  /\ chart' = [chart EXCEPT ![1] = IF ok THEN ChartObj(id, "time", datasets) ELSE NoChart]
                  /\ listening' = [listening EXCEPT ![1] = ok]
                  /\ pc' = [pc EXCEPT ![1] = IF ok THEN "done" ELSE "rejected"]
  /\ UNCHANGED <<dataVars, rangeInput, aqId, canvas, checked, requests, notices, ancillary, selector>>

\* the second handler without its notice
NoticesFor_never(rawData) == 0

\* the notices the second handler appends for its record list
NoticesFor(rawData) == IF Len(rawData) = 0 THEN 1 ELSE 0

\* the second handler from its await on: the request settles with one of
\* outcomes, the primary new Chart returns (ok1) or throws, and so does the
\* fallback one (ok2) when it is reached
Handler2Resume(outcomes) ==
  /\ pc[2] = "fetching"
  /\ \E outcome \in outcomes, ok1 \in BOOLEAN, ok2 \in BOOLEAN :
       LET result == fetchMeasurements(aqId, outcome)
           rawData == result.value.items
           datasets == createDatasets(checked, rawData)
           fallback == fallbackDatasets(createDatasets(checked, rawData))
           id == Len(attempts) + 1
           primary == Attempt(2, "primary", ok1, "time", datasets)
           second == Attempt(2, "fallback", ok2, "linear", fallback)
       IN /\ ok1 => ok2
          /\ netOutcome' = [netOutcome EXCEPT ![2] = outcome]
          /\ IF ~Usable(result)
             THEN /\ pc' = [pc EXCEPT ![2] = "rejected"]
                  /\ UNCHANGED <<raw, chart, attempts, listening, notices, ancillary, selector>>
             ELSE /\ raw' = [raw EXCEPT ![2] =
                               dataAfterCreateDatasets(getVisibleMetrics(checked), rawData)]
                  /\ attempts' = IF ok1 THEN Append(attempts, primary)
                                 ELSE attempts \o <<primary, second>>
                  /\ chart' = [chart EXCEPT ![2] =
                                 IF ok1 THEN ChartObj(id, "time", datasets)
                                 ELSE IF ok2 THEN ChartObj(id + 1, "linear", fallback)
                                 ELSE NoChart]
                  /\ listening' = [listening EXCEPT ![2] = TRUE]
                  /\ notices' = notices + NoticesFor(rawData)
                  /\ ancillary' = TRUE
                  /\ selector' = updateAquariumSelectorBackground(selector)
                  /\ pc' = [pc EXCEPT ![2] = "done"]
  /\ UNCHANGED <<dataVars, rangeInput, aqId, canvas, checked, requests>>

\* the change listener of the first handler, on its chart
Listener1(c, chk) ==
  [c EXCEPT !.datasets = lineDatasets(chk, raw[1]), !.updated = "default"]

\* a listener that builds a new chart object instead of updating the one
\* it has
Listener2_rebuilds(c, chk) ==
  IF c # NoChart
  THEN [ChartObj(c.id + 10, c.axis, createDatasets(chk, raw[2])) EXCEPT !.updated = "active"]
  ELSE c

\* the change listener of the second handler, on its chart variable
Listener2(c, chk) ==
  IF c # NoChart
  THEN [c EXCEPT !.datasets = createDatasets(chk, raw[2]), !.updated = "active"]
  ELSE c

\* the user flips toggle i: the change event runs the registered listeners
ToggleChange(i) ==
  LET chk == [checked EXCEPT ![i] = ~checked[i]]
  IN /\ checked' = chk
     /\ chart' = [h \in Handlers |->
                    IF ~listening[h] THEN chart[h]
                    ELSE IF h = 1 THEN Listener1(chart[1], chk)
                    ELSE Listener2(chart[2], chk)]
     /\ raw' = [raw EXCEPT ![2] =
                  IF listening[2] /\ chart[2] # NoChart
                  THEN dataAfterCreateDatasets(getVisibleMetrics(chk), raw[2])
                  ELSE raw[2]]
     /\ UNCHANGED <<dataVars, rangeInput, aqId, canvas, pc, requests, netOutcome,
                    attempts, listening, notices, ancillary, selector>>

\* the user selects option i: the change event runs setBackground if it
\* is registered
SelectorChange(i) ==
  /\ selector.present
  /\ i # selector.selectedIndex
  /\ Len(selector.probes) < MaxProbes
  /\ LET selected == [selector EXCEPT !.selectedIndex = i]
     IN selector' = IF selector.listening THEN setBackground(selected) ELSE selected
  /\ UNCHANGED <<dataVars, pageVars, rangeInput>>

\* the image of probe p loads
ImgLoad(p) ==
  /\ selector.probes[p].status = "pending"
  /\ selector' = onload(selector, p)
  /\ UNCHANGED <<dataVars, pageVars, rangeInput>>

\* the image of probe p fails to load
ImgError(p) ==
  /\ selector.probes[p].status = "pending"
  /\ selector' = onerror(selector, p)
  /\ UNCHANGED <<dataVars, pageVars, rangeInput>>

\* the user leaves v in the number input: the input event runs the
\* listener if it is registered
InputEvent(v) ==
  /\ v # rangeInput.value
  /\ LET typed == [rangeInput EXCEPT !.value = v]
     IN rangeInput' = IF ancillary THEN inputListener(typed) ELSE typed
  /\ UNCHANGED <<dataVars, pageVars, selector>>

(***************************************************************************)
(* Spec: a page load and the toggle changes, for any page (identifier,     *)
(* canvas, toggles, selector) and any outcome of the two requests.         *)
(***************************************************************************)
Init ==
  /\ fmAqId = Null
  /\ DataIdle
  /\ aqId \in AqIds
  /\ canvas \in BOOLEAN
  /\ checked \in [1..NumToggles -> BOOLEAN]
  /\ PageIdle
  /\ selector \in {SelectorDom(present, TRUE, 2) : present \in BOOLEAN}
  /\ rangeInput = PlainInput

Next ==
  \/ Handler1Start
  \/ Handler2Start
  \/ Handler1Resume(PageOutcomes)
  \/ Handler2Resume(PageOutcomes)
  \/ \E i \in 1..NumToggles : ToggleChange(i)

Spec == Init /\ [][Next]_vars

(***************************************************************************)
(* SpecSel: a page load and the life of the selector's background: the     *)
(* selection changes and the image probes settle in any order.             *)
(***************************************************************************)
InitSel ==
  /\ fmAqId = Null
  /\ DataIdle
  /\ aqId \in AqIds
  /\ canvas \in BOOLEAN
  /\ checked = [i \in 1..NumToggles |-> FALSE]
  /\ PageIdle
  /\ selector \in {SelectorDom(present, preview, index) :
                     present \in BOOLEAN, preview \in BOOLEAN, index \in 0..Len(Options)}
  /\ rangeInput = PlainInput

NextSel ==
  \/ Handler1Start
  \/ Handler2Start
  \/ Handler1Resume(SelOutcomes)
  \/ Handler2Resume(SelOutcomes)
  \/ \E i \in 1..Len(Options) : SelectorChange(i)
  \/ \E p \in 1..Len(selector.probes) : ImgLoad(p)
  \/ \E p \in 1..Len(selector.probes) : ImgError(p)

SpecSel == InitSel /\ [][NextSel]_vars


(***************************************************************************)
(* SpecInput: a page load and the input events of a number input, for any  *)
(* min and max attributes.                                                 *)
(***************************************************************************)
InitInput ==
  /\ fmAqId = Null
  /\ DataIdle
  /\ aqId \in AqIds
  /\ canvas \in BOOLEAN
  /\ checked = [i \in 1..NumToggles |-> FALSE]
  /\ PageIdle
  /\ selector = SelectorDom(FALSE, FALSE, 0)
  /\ rangeInput \in NumberInputs

NextInput ==
  \/ Handler1Start
  \/ Handler2Start
  \/ Handler1Resume(SelOutcomes)
  \/ Handler2Resume(SelOutcomes)
  \/ \E v \in InputValues : InputEvent(v)

SpecInput == InitInput /\ [][NextInput]_vars
(***************************************************************************)
(* Properties of the loader and of the point builder (SpecData).           *)
(***************************************************************************)
\* the list fetchMeasurements was asked to load, once the call has settled
DataItemsFetched == fmResult.value.items

\* the network answered with a success status and a body that is an array
SuccessWithArray(id, outcome) ==
  /\ Truthy(id)
  /\ outcome.net = "response"
  /\ outcome.ok
  /\ outcome.json = "value"
  /\ outcome.body.isArray

\* C1: fetchMeasurements never rejects and always resolves to a list: the
\* array of the body when the status is a success and the body is an array,
\* the empty list for every other outcome (identifier absent, network error,
\* non-success status, body that is not JSON, JSON that is not an array).
C1_FetchResolvesToList ==
  dpc # "start" =>
    /\ fmResult.state = "fulfilled"
    /\ fmResult.value.isArray
    /\ SuccessWithArray(fmAqId, fmOutcome) => fmResult.value.items = fmOutcome.body.items
    /\ ~SuccessWithArray(fmAqId, fmOutcome) => fmResult.value.items = <<>>

\* a success status with a body that holds records but is not an array
C1_Witness ==
  /\ dpc = "fetched"
  /\ Truthy(fmAqId)
  /\ fmOutcome.net = "response" /\ fmOutcome.ok /\ fmOutcome.json = "value"
  /\ ~fmOutcome.body.isArray
  /\ fmOutcome.body.items # <<>>
  /\ fmResult = Fulfilled(JsonArray(<<>>))

\* C6: every point buildPoints returns has a finite y and a valid date x.
C6_PointsFiniteAndDated ==
  dpc = "built" =>
    \A i \in 1..Len(bpPoints) :
      /\ bpPoints[i].y.t = "num"
      /\ bpPoints[i].x.t = "date"

\* C7: the points buildPoints returns are in non-decreasing order of date,
\* whatever the order of the records.
C7_PointsSortedByDate ==
  dpc = "built" =>
    \A i, j \in 1..Len(bpPoints) : i < j => bpPoints[i].x.n <= bpPoints[j].x.n

\* the record has a date, a non-empty value for the key, a date that parses
\* and a value that parses to a number (parseFloat's notion: not NaN)
ValidRecord(d, key) ==
  /\ d # Null
  /\ d.date \notin {Null, Str(<<>>)}
  /\ d[key] \notin {Null, Str(<<>>)}
  /\ parseDate(d.date).t = "date"
  /\ parseFloat(d[key]).t \in {"num", "inf"}

ValidIndices(items, key) == {i \in 1..Len(items) : ValidRecord(items[i], key)}

\* two valid records arrive with the later date first
C7_Witness ==
  /\ dpc = "built"
  /\ Len(bpPoints) >= 2
  /\ \E i, j \in ValidIndices(DataItemsFetched, bpKey) :
       /\ i < j
       /\ parseDate(DataItemsFetched[i].date).n > parseDate(DataItemsFetched[j].date).n

PointOf(d, key) == Point(parseDate(d.date), parseFloat(d[key]))

\* the record list of the example
ExampleRecords ==
  <<Rec(D1, Str(<<"5">>), Null), Rec(D3, Str(<<"b", "a", "d">>), Null),
    Rec(D2, Str(<<"7">>), Null)>>

\* C8: buildPoints returns one point per valid record and no other point:
\* its output is the multiset of the valid records' (date, value) pairs, and
\* on the example it is the points of Jan 1 (5) and Jan 2 (7), in that order.
C8_OnePointPerValidRecord ==
  dpc = "built" =>
    LET items == DataItemsFetched
        valid == ValidIndices(items, bpKey)
    IN /\ Len(bpPoints) = Cardinality(valid)
       /\ \A i \in valid :
            Cardinality({j \in 1..Len(bpPoints) : bpPoints[j] = PointOf(items[i], bpKey)})
              = Cardinality({k \in valid : PointOf(items[k], bpKey) = PointOf(items[i], bpKey)})
       /\ (items = ExampleRecords /\ bpKey = "nitrate") =>
            bpPoints = <<Point(DateObj(36), Num(5)), Point(DateObj(60), Num(7))>>

C8_Witness ==
  /\ dpc = "built"
  /\ DataItemsFetched = ExampleRecords
  /\ bpKey = "nitrate"
  /\ Len(bpPoints) = 2

(***************************************************************************)
(* Properties of the page load (Spec).                                     *)
(***************************************************************************)
\* handler h is past its await: its request has settled and it has run on
Resumed(h) == pc[h] \in {"done", "rejected"}

\* the request ended in a network error or in a non-success status
FetchFailed(outcome) ==
  \/ outcome.net = "error"
  \/ outcome.net = "response" /\ ~outcome.ok

\* the calls of new Chart handler h made, as indices of attempts
AttemptsBy(h, kind) ==
  {i \in 1..Len(attempts) : attempts[i].by = h /\ attempts[i].kind = kind}

NoneChecked == \A i \in 1..NumToggles : ~checked[i]

\* C2: on a page load whose requests fail (network error or HTTP 500), with
\* canvas and identifier present, every handler runs to its end without a
\* rejection, with an empty record list, and the notice is appended.
C2_FailedFetchLoadsCleanly ==
  (/\ canvas /\ Truthy(aqId)
   /\ \A h \in Handlers : Resumed(h) /\ FetchFailed(netOutcome[h]))
  => /\ \A h \in Handlers : pc[h] = "done" /\ raw[h] = <<>>
     /\ notices = 1

\* C3 as stated: with an empty record list no chart object is constructed
\* by the handler and the notice is appended.
C3_NoChartWhenEmpty ==
  \A h \in Handlers :
    (Resumed(h) /\ raw[h] = <<>>) =>
      /\ chart[h] = NoChart
      /\ \A i \in AttemptsBy(h, "primary") \cup AttemptsBy(h, "fallback") : ~attempts[i].ok
      /\ h = 2 => notices = 1

\* every dataset of the sequence is without points
Pointless(datasets) == \A i \in 1..Len(datasets) : datasets[i].data = <<>>

\* C3, amended: with an empty record list a chart may be constructed, but
\* no dataset given to a chart by that handler holds a point, the second
\* handler's chart has no dataset at all, and the second handler appends
\* the notice once.
C3_EmptyListEmptyChart ==
  \A h \in Handlers :
    (Resumed(h) /\ raw[h] = <<>>) =>
      /\ Pointless(chart[h].datasets)
      /\ \A i \in AttemptsBy(h, "primary") \cup AttemptsBy(h, "fallback") :
           Pointless(attempts[i].datasets)
      /\ h = 2 => (chart[2].datasets = <<>> /\ notices = 1)

\* the second handler has built a chart on an empty list, notice appended
C3_Witness ==
  /\ pc[2] = "done"
  /\ raw[2] = <<>>
  /\ chart[2] # NoChart
  /\ notices = 1

\* every point of the datasets has its index as x
Positional(datasets) ==
  \A i \in 1..Len(datasets) :
    \A k \in 1..Len(datasets[i].data) : datasets[i].data[k].x = Num(k - 1)

\* C4: a failed primary construction is followed by exactly one fallback
\* construction, on a linear x axis and with positional x values; if that
\* one throws too there is no chart, and no exception leaves the handler.
C4_FailedPrimaryFallsBackOnce ==
  \A h \in Handlers :
    \A i \in AttemptsBy(h, "primary") :
      ~attempts[i].ok =>
        /\ Cardinality(AttemptsBy(h, "fallback")) = 1
        /\ \A j \in AttemptsBy(h, "fallback") :
             /\ attempts[j].axis = "linear"
             /\ Positional(attempts[j].datasets)
             /\ ~attempts[j].ok => chart[h] = NoChart
        /\ pc[h] # "rejected"

\* the label handler h gives to the nitrate metric
NitrateLabel(h) ==
  IF h = 1 THEN FindMetric(metrics1, "nitrate").label
  ELSE FindMetric(metrics2, "nitrate").label

\* C5: while no toggle is checked, the datasets of a chart on the canvas
\* are those of the single metric nitrate.
C5_NoToggleMeansNitrate ==
  \A h \in Handlers :
    (chart[h] # NoChart /\ NoneChecked) =>
      /\ Len(chart[h].datasets) <= 1
      /\ \A i \in 1..Len(chart[h].datasets) : chart[h].datasets[i].label = NitrateLabel(h)
      /\ buildPoints(raw[h], "nitrate") # <<>> => Len(chart[h].datasets) = 1

\* C10: a page load with canvas and identifier issues exactly one request
\* for the measurements, with the cache bypassed, and never another one.
C10_OneRequestPerLoad ==
  /\ Len(requests) <= 1
  /\ \A i \in 1..Len(requests) : requests[i].cache = "no-store"
  /\ (canvas /\ Truthy(aqId) /\ \A h \in Handlers : pc[h] # "idle") => Len(requests) = 1

\* the datasets a toggle change computes for the chart of handler h
FreshDatasets(h, chk, data) ==
  IF h = 1 THEN lineDatasets(chk, data) ELSE createDatasets(chk, data)

\* C11: a toggle change constructs no chart: a chart that exists keeps its
\* identity and its x axis, gets freshly computed datasets and an update
\* request; a handler without a chart stays without one.
C11_ToggleKeepsChartInstance ==
  [][checked' # checked =>
       /\ attempts' = attempts
       /\ \A h \in Handlers :
            /\ chart'[h].id = chart[h].id
            /\ chart[h] = NoChart => chart'[h] = NoChart
            /\ chart[h] # NoChart =>
                 /\ chart'[h].axis = chart[h].axis
                 /\ chart'[h].datasets = FreshDatasets(h, checked', raw[h])
                 /\ chart'[h].updated # "none"]_vars

\* the second handler's chart has been updated by a toggle change while the
\* first handler has no chart
C11_Witness ==
  /\ chart[2] # NoChart
  /\ chart[2].updated = "active"
  /\ chart[2].datasets # <<>>
  /\ chart[1] = NoChart

\* the buildPoints series of the keys that have at least one valid point
RECURSIVE SeriesOf(_, _)
SeriesOf(keys, data) ==
  IF keys = <<>> THEN <<>>
  ELSE (IF buildPoints(data, Head(keys)) # <<>> THEN <<buildPoints(data, Head(keys))>> ELSE <<>>)
       \o SeriesOf(Tail(keys), data)

\* C12: the datasets of a chart on the canvas are one per visible metric
\* with a valid point, in toggle order, each holding the metric's
\* buildPoints series.
C12_DatasetsAreVisibleSeries ==
  \A h \in Handlers :
    chart[h] # NoChart =>
      [i \in 1..Len(chart[h].datasets) |-> chart[h].datasets[i].data]
        = SeriesOf(getVisibleMetrics(checked), raw[h])

\* gaps are not spanned and the area is not filled
NoSpanNoFill(datasets) ==
  \A i \in 1..Len(datasets) : ~datasets[i].spanGaps /\ datasets[i].fill # "true"

\* C13: every dataset handed to a chart, at construction or on a toggle
\* change, has spanGaps false and no area fill.
C13_NoGapSpanning ==
  /\ \A i \in 1..Len(attempts) : NoSpanNoFill(attempts[i].datasets)
  /\ \A h \in Handlers : NoSpanNoFill(chart[h].datasets)

\* C14: once the page-load handlers have run, the ancillary listeners are
\* registered, whatever the page holds (canvas, identifier) and whatever
\* the request and the chart construction did.
C14_AncillaryAlwaysInstalled ==
  (\A h \in Handlers : pc[h] \in {"returned", "done", "rejected"}) =>
    /\ ancillary
    /\ selector.present => selector.listening

\* the record list handler h captured from its request
Captured(h) ==
  IF SuccessWithArray(aqId, netOutcome[h]) THEN netOutcome[h].body.items ELSE <<>>

\* C16: the record list a handler captured stays what the request
\* delivered, record by record and in the same order, through the initial
\* render, a fallback render and every toggle change.
C16_RawListUntouched ==
  \A h \in Handlers : pc[h] = "done" => raw[h] = Captured(h)

\* the second handler's chart has been recomputed by a toggle change from a
\* list of two records that are not in date order
C16_Witness ==
  /\ pc[2] = "done"
  /\ Len(raw[2]) >= 2
  /\ parseDate(raw[2][1].date).n > parseDate(raw[2][2].date).n
  /\ chart[2].updated = "active"
  /\ chart[2].datasets # <<>>

\* C18: at most one chart object is constructed on the canvas, and the
\* canvas is not given to new Chart again once a construction succeeded.
C18_OneChartOnCanvas ==
  /\ Cardinality({i \in 1..Len(attempts) : attempts[i].ok}) <= 1
  /\ \A i, j \in 1..Len(attempts) : i < j => ~attempts[i].ok

\* C19: a chart on the linear index axis holds positional x values only,
\* also after toggle changes.
C19_LinearAxisKeepsIndices ==
  \A h \in Handlers : chart[h].axis = "linear" => Positional(chart[h].datasets)

(***************************************************************************)
(* Properties of the selector's background (SpecSel).                      *)
(***************************************************************************)
\* C9 as stated, in the case where nothing else touches the styling: the
\* probe of the latest selection fails while the styling is still what its
\* setBackground left; the styling then is what it was before that
\* setBackground ran.
C9_ErrorRestoresEarlierStyling ==
  [][\A p \in 1..Len(selector.probes) :
       (/\ ImgError(p)
        /\ p = Len(selector.probes)
        /\ selector.selBg = NoImage /\ ~selector.hasBg)
       => Styling(selector') = selector.probes[p].before]_vars

\* C9, amended: the error callback of a probe changes nothing: the
\* selector's background image, its has-background class and the preview's
\* background image are after it what they were just before it.
C9_ErrorChangesNothing ==
  [][\A p \in 1..Len(selector.probes) :
       ImgError(p) => Styling(selector') = Styling(selector)]_vars

\* a probe has failed whose selection was made while a background showed
C9_Witness ==
  \E p \in 1..Len(selector.probes) :
    /\ selector.probes[p].status = "failed"
    /\ selector.probes[p].before.selBg # NoImage


\* C17: once no probe is pending, the selector and the preview show the
\* image of the selected option if the probe of that selection loaded, and
\* no image otherwise.
C17_SettledShowsCurrentSelection ==
  (/\ selector.listening
   /\ \A p \in 1..Len(selector.probes) : selector.probes[p].status # "pending")
  => LET imageUrl == ImageUrlOf(selector.selectedIndex)
         last == Len(selector.probes)
         shown == /\ Truthy(imageUrl)
                  /\ last > 0
                  /\ selector.probes[last].url = imageUrl
                  /\ selector.probes[last].status = "loaded"
         image == IF shown THEN CssUrl(imageUrl) ELSE NoImage
     IN /\ selector.selBg = image
        /\ selector.hasBg = shown
        /\ selector.preview => selector.prevBg = image

(***************************************************************************)
(* Properties of the number inputs (SpecInput).                            *)
(***************************************************************************)
\* the listener has classified the value the input event left: one border
\* class, border-danger for a value below min or above max and
\* border-success otherwise, the other classes kept, and the title set
Classified(before, after) ==
  LET value == parseFloat(Str(after.value))
      outside == \/ Less(value, parseFloat(Str(after.min)))
                 \/ Less(parseFloat(Str(after.max)), value)
  IN /\ after.classes \ BorderClasses = before.classes \ BorderClasses
     /\ after.classes \cap BorderClasses =
          IF outside THEN {"border-danger"} ELSE {"border-success"}
     /\ after.title # <<>>
     /\ after.title = InRangeTitle <=> ~outside

\* C15 as stated: an input event that leaves a value which is not a number
\* changes neither the classes nor the title of the field; one that leaves
\* a number classifies it.
C15_NoOpOnUnparseable ==
  [][(ancillary /\ rangeInput'.value # rangeInput.value) =>
       IF IsNaN(parseFloat(Str(rangeInput'.value)))
       THEN /\ rangeInput'.classes = rangeInput.classes
            /\ rangeInput'.title = rangeInput.title
       ELSE Classified(rangeInput, rangeInput')]_vars

\* C15, amended: an input event that leaves a value which is not a number
\* removes the three border classes from the field and leaves its other
\* classes and its title as they were; one that leaves a number classifies
\* it, a bound that is absent being never exceeded.
C15_UnparseableClearsBorder ==
  [][(ancillary /\ rangeInput'.value # rangeInput.value) =>
       /\ rangeInput'.min = rangeInput.min
       /\ rangeInput'.max = rangeInput.max
       /\ IF IsNaN(parseFloat(Str(rangeInput'.value)))
          THEN /\ rangeInput'.classes = rangeInput.classes \ BorderClasses
               /\ rangeInput'.title = rangeInput.title
          ELSE Classified(rangeInput, rangeInput')]_vars

\* the field has been classified out of range and then emptied: it keeps
\* the title and has lost its border class
C15_Witness ==
  /\ ancillary
  /\ rangeInput.value = <<>>
  /\ rangeInput.title # <<>>
  /\ rangeInput.title # InRangeTitle
  /\ rangeInput.classes \cap BorderClasses = {}
====
